---------------------------- MODULE Spec2Model ----------------------------
(***************************************************************************)
(* Model of rightfold/butterfly, tool/src/use_case_diagram:                *)
(*   mod.rs                      the UseCaseDiagram aggregate              *)
(*   code_generation/purescript.rs  generate_portal_definition             *)
(*                                                                         *)
(* The diagram is one record with the fields of the struct.  Every method  *)
(* taking &mut self is an operator from the struct (and its arguments) to  *)
(* a record [self, ret, panic]: the struct after the call, the returned    *)
(* value, and whether an assert! / unwrap of the method panicked.  One     *)
(* action per public operation applies the operator and records the call.  *)
(***************************************************************************)
EXTENDS Integers, Sequences, FiniteSets, TLC

(***************************************************************************)
(* Bounds of the model.                                                    *)
(***************************************************************************)
\* insert_actor is called at most MaxActors times
MaxActors == 2
\* insert_use_case is called at most MaxUseCases times
MaxUseCases == 2
\* insert_actor, insert_use_case and insert_association together succeed at
\* most MaxCalls times
MaxCalls == 6

\* names and titles the callers pass (several entities may share one)
Names == {"Administrator", "Subscriber"}
Titles == {"Ban subscriber", "Post comment"}
\* names given to the generated portal
PortalNames == {"portal"}
\* identifiers callers pass to insert_association: every identifier that can
\* have been returned, and one that never is
ActorIds == 0..MaxActors
UseCaseIds == 0..MaxUseCases

(***************************************************************************)
(* Values of the program.                                                  *)
(***************************************************************************)
Actor(name) == [name |-> name]
UseCase(title) == [title |-> title]

NonexistentActor(actor_id) == <<"NonexistentActor", actor_id>>
NonexistentUseCase(use_case_id) == <<"NonexistentUseCase", use_case_id>>

\* Result / Option values and the unit value
Unit == <<>>
Ok(v) == <<"Ok", v>>
Err(e) == <<"Err", e>>
Some(v) == <<"Some", v>>
None == <<"None">>
\* what a call that panicked leaves in place of a return value
Panic == <<"Panic">>
\* the errors of a sink: IoError stands for an error of any kind that
\* write_all hands on, Interrupted for the kind after which write_all calls
\* write() again with the same buffer, WriteZero for the error write_all
\* makes of a write() that takes 0 bytes
IoError == <<"io::Error">>
Interrupted == <<"io::Error", "Interrupted">>
WriteZero == <<"io::Error", "WriteZero">>

\* sinks (W: io::Write) handed to the generator
\*   AcceptAll       every write() takes its whole buffer (a Vec<u8>, stdout)
\*   Refuse(faults)  the write() calls numbered in DOMAIN faults return the
\*                   error given there, the others take their whole buffer
\*   Buffer(c)       a fixed buffer of c bytes (&mut [u8]): write() takes
\*                   what still fits, and 0 bytes once the buffer is full
AcceptAll == [kind |-> "all"]
Refuse(faults) == [kind |-> "refuse", faults |-> faults]
Buffer(c) == [kind |-> "buffer", size |-> c]
\* the second write() is interrupted and the thirteenth fails: the latter
\* is the call for the 12th piece
Sinks == {AcceptAll, Refuse(2 :> Interrupted @@ 13 :> IoError), Buffer(10)}

\* HashMap::new, HashSet::new
HashMapNew == [k \in {} |-> k]
HashSetNew == {}
\* HashMap::contains_key, HashMap::get, HashMap::insert, HashSet::insert
contains_key(m, k) == k \in DOMAIN m
get(m, k) == IF k \in DOMAIN m THEN Some(m[k]) ELSE None
HashMapInsert(m, k, v) == [x \in DOMAIN m \cup {k} |-> IF x = k THEN v ELSE m[x]]
HashSetInsert(s, x) == s \cup {x}

(***************************************************************************)
(* UseCaseDiagram (mod.rs).                                                *)
(***************************************************************************)
\* assert_invariants: TRUE when no assert! of the loop fails
assert_invariants(self) ==
    \A assoc \in self.associations :
        /\ contains_key(self.actors, assoc[1])
        /\ contains_key(self.use_cases, assoc[2])

\* UseCaseDiagram::new, before its assert_invariants
new ==
    [ next_actor_id    |-> 0,
      next_use_case_id |-> 0,
      actors           |-> HashMapNew,
      use_cases        |-> HashMapNew,
      associations     |-> HashSetNew ]

\* Faulty variant: the counter is not advanced, so every call returns the
\* same identifier.
next_actor_id_stuck(self) ==
    [self |-> self, ret |-> self.next_actor_id, panic |-> ~assert_invariants(self)]

next_actor_id(self) ==
    LET actor_id == self.next_actor_id
        s1 == [self EXCEPT !.next_actor_id = @ + 1]
    IN  [self |-> s1, ret |-> actor_id, panic |-> ~assert_invariants(s1)]

\* Faulty variant: the use-case identifier is drawn from the actor counter.
next_use_case_id_shared(self) ==
    LET use_case_id == self.next_actor_id
        s1 == [self EXCEPT !.next_actor_id = @ + 1]
    IN  [self |-> s1, ret |-> use_case_id, panic |-> ~assert_invariants(s1)]

\* Faulty variant: the counter is not advanced.
next_use_case_id_stuck(self) ==
    [self |-> self, ret |-> self.next_use_case_id, panic |-> ~assert_invariants(self)]

\* Faulty variant: the counter is advanced by two.
next_use_case_id_by_two(self) ==
    LET use_case_id == self.next_use_case_id
        s1 == [self EXCEPT !.next_use_case_id = @ + 2]
    IN  [self |-> s1, ret |-> use_case_id, panic |-> ~assert_invariants(s1)]

next_use_case_id(self) ==
    LET use_case_id == self.next_use_case_id
        s1 == [self EXCEPT !.next_use_case_id = @ + 1]
    IN  [self |-> s1, ret |-> use_case_id, panic |-> ~assert_invariants(s1)]

\* UseCaseDiagram::actor, UseCaseDiagram::use_case
actor(self, actor_id) == get(self.actors, actor_id)
use_case(self, use_case_id) == get(self.use_cases, use_case_id)

\* Faulty variant: the actor is stored under the counter after its increment.
insert_actor_off_by_one(self, a) ==
    LET r == next_actor_id(self)
        s2 == [r.self EXCEPT !.actors = HashMapInsert(@, r.self.next_actor_id, a)]
    IN  IF r.panic
        THEN [self |-> r.self, ret |-> Panic, panic |-> TRUE]
        ELSE IF ~assert_invariants(s2)
        THEN [self |-> s2, ret |-> Panic, panic |-> TRUE]
        ELSE [self |-> s2, ret |-> r.ret, panic |-> FALSE]

insert_actor(self, a) ==
    LET r == next_actor_id(self)
        s2 == [r.self EXCEPT !.actors = HashMapInsert(@, r.ret, a)]
    IN  IF r.panic
        THEN [self |-> r.self, ret |-> Panic, panic |-> TRUE]
        ELSE IF ~assert_invariants(s2)
        THEN [self |-> s2, ret |-> Panic, panic |-> TRUE]
        ELSE [self |-> s2, ret |-> r.ret, panic |-> FALSE]

insert_use_case(self, uc) ==
    LET r == next_use_case_id(self)
        s2 == [r.self EXCEPT !.use_cases = HashMapInsert(@, r.ret, uc)]
    IN  IF r.panic
        THEN [self |-> r.self, ret |-> Panic, panic |-> TRUE]
        ELSE IF ~assert_invariants(s2)
        THEN [self |-> s2, ret |-> Panic, panic |-> TRUE]
        ELSE [self |-> s2, ret |-> r.ret, panic |-> FALSE]

\* Faulty variant: the use case is not checked.
insert_association_unchecked_use_case(self, actor_id, use_case_id) ==
    IF ~contains_key(self.actors, actor_id)
    THEN [self |-> self, ret |-> Err(NonexistentActor(actor_id)), panic |-> FALSE]
    ELSE LET s1 == [self EXCEPT !.associations =
                        HashSetInsert(@, <<actor_id, use_case_id>>)]
         IN  IF ~assert_invariants(s1)
             THEN [self |-> s1, ret |-> Panic, panic |-> TRUE]
             ELSE [self |-> s1, ret |-> Ok(Unit), panic |-> FALSE]

\* Faulty variant: the use case is checked before the actor.
insert_association_use_case_first(self, actor_id, use_case_id) ==
    IF ~contains_key(self.use_cases, use_case_id)
    THEN [self |-> self, ret |-> Err(NonexistentUseCase(use_case_id)), panic |-> FALSE]
    ELSE IF ~contains_key(self.actors, actor_id)
    THEN [self |-> self, ret |-> Err(NonexistentActor(actor_id)), panic |-> FALSE]
    ELSE LET s1 == [self EXCEPT !.associations =
                        HashSetInsert(@, <<actor_id, use_case_id>>)]
         IN  IF ~assert_invariants(s1)
             THEN [self |-> s1, ret |-> Panic, panic |-> TRUE]
             ELSE [self |-> s1, ret |-> Ok(Unit), panic |-> FALSE]

\* Faulty variant: the pair is inserted before the use case is checked.
insert_association_partial(self, actor_id, use_case_id) ==
    IF ~contains_key(self.actors, actor_id)
    THEN [self |-> self, ret |-> Err(NonexistentActor(actor_id)), panic |-> FALSE]
    ELSE LET s1 == [self EXCEPT !.associations =
                        HashSetInsert(@, <<actor_id, use_case_id>>)]
         IN  IF ~contains_key(self.use_cases, use_case_id)
             THEN [self |-> s1, ret |-> Err(NonexistentUseCase(use_case_id)),
                   panic |-> FALSE]
             ELSE IF ~assert_invariants(s1)
             THEN [self |-> s1, ret |-> Panic, panic |-> TRUE]
             ELSE [self |-> s1, ret |-> Ok(Unit), panic |-> FALSE]

\* Faulty variant: assert!(self.associations.insert(..)), which panics when
\* the pair is already present.
insert_association_assert_fresh(self, actor_id, use_case_id) ==
    IF ~contains_key(self.actors, actor_id)
    THEN [self |-> self, ret |-> Err(NonexistentActor(actor_id)), panic |-> FALSE]
    ELSE IF ~contains_key(self.use_cases, use_case_id)
    THEN [self |-> self, ret |-> Err(NonexistentUseCase(use_case_id)), panic |-> FALSE]
    ELSE LET s1 == [self EXCEPT !.associations =
                        HashSetInsert(@, <<actor_id, use_case_id>>)]
         IN  IF <<actor_id, use_case_id>> \in self.associations \/ ~assert_invariants(s1)
             THEN [self |-> s1, ret |-> Panic, panic |-> TRUE]
             ELSE [self |-> s1, ret |-> Ok(Unit), panic |-> FALSE]

insert_association(self, actor_id, use_case_id) ==
    IF ~contains_key(self.actors, actor_id)
    THEN [self |-> self, ret |-> Err(NonexistentActor(actor_id)), panic |-> FALSE]
    ELSE IF ~contains_key(self.use_cases, use_case_id)
    THEN [self |-> self, ret |-> Err(NonexistentUseCase(use_case_id)), panic |-> FALSE]
    ELSE LET s1 == [self EXCEPT !.associations =
                        HashSetInsert(@, <<actor_id, use_case_id>>)]
         IN  IF ~assert_invariants(s1)
             THEN [self |-> s1, ret |-> Panic, panic |-> TRUE]
             ELSE [self |-> s1, ret |-> Ok(Unit), panic |-> FALSE]

(***************************************************************************)
(* Iteration.  A HashMap / HashSet yields its entries in an order the      *)
(* caller cannot choose; two traversals of an unmodified container yield   *)
(* the same order.  An iteration order is a sequence that enumerates the   *)
(* keys (entries) once each.                                               *)
(***************************************************************************)
Orders(S) ==
    { o \in [1..Cardinality(S) -> S] : \A x \in S : \E i \in DOMAIN o : o[i] = x }

\* UseCaseDiagram::actors, use_cases, associations under an iteration order
actors(self, order) == [i \in DOMAIN order |-> <<order[i], self.actors[order[i]]>>]
use_cases(self, order) == [i \in DOMAIN order |-> <<order[i], self.use_cases[order[i]]>>]
associations(self, order) == order


(***************************************************************************)
(* generate_portal_definition (purescript.rs).                             *)
(*                                                                         *)
(* write!(w, fmt, args) is w.write_fmt(format_args!(fmt, args)): the       *)
(* formatting machinery hands the text to the sink piece by piece, one     *)
(* write_str, and so one write_all, per non-empty piece: each literal      *)
(* stretch of the format string, the string of a {} argument, and for a    *)
(* {:?} argument the opening quote, the string and the closing quote.  A   *)
(* write! can so fail after some of its pieces have reached the sink.      *)
(*                                                                         *)
(* The generator's run is the sequence of its steps in program order:      *)
(* each step is one piece, tagged with the write! it belongs to and its    *)
(* place in it, or UnwrapNone where diagram.actor(..).unwrap() meets None. *)
(* The run stops at the first piece the sink does not take whole (the ?    *)
(* returns the error) or at the first UnwrapNone (a panic).                *)
(***************************************************************************)
\* {} of a str: the string.  {:?} of a str: quote, string, quote (the names
\* and titles of this model hold no character that {:?} escapes)
Display(str) == << str >>
Debug(str) == << "\"", str, "\"" >>

\* the pieces of each format string of purescript.rs; a format string
\* without placeholder is its own single piece
FormatPieces(fmt, fmt_args) ==
    CASE fmt = "{}\n"            -> Display(fmt_args[1]) \o << "\n" >>
      [] fmt = "   . {{"         -> << "   . {" >>
      [] fmt = "{:?} :: f Unit"  -> Debug(fmt_args[1]) \o << " :: f Unit" >>
      [] fmt = " }}\n"           -> << " }\n" >>
      [] fmt = "{} actions =\n"  -> Display(fmt_args[1]) \o << " actions =\n" >>
      [] fmt = "Button {:?}\n"   -> << "Button " >> \o Debug(fmt_args[1]) \o << "\n" >>
      [] fmt = "Actor {:?}"      -> << "Actor " >> \o Debug(fmt_args[1])
      [] fmt = "             actions.{:?}" ->
                                    << "             actions." >> \o Debug(fmt_args[1])
      [] OTHER                   -> << fmt >>

\* bytes of a piece (U+2200, spelled "forall" here, is 3 bytes of UTF-8)
ByteLen(text) == IF text = "  :: forall f\n" THEN 11 ELSE Len(text)

\* a piece: the write! it belongs to, its place in it, its text and the
\* bytes of it (in a sink: the bytes of it the sink holds)
write(fmt, fmt_args) ==
    LET texts == FormatPieces(fmt, fmt_args)
    IN  [k \in DOMAIN texts |->
            [fmt |-> fmt, part |-> k, text |-> texts[k], bytes |-> ByteLen(texts[k])]]

UnwrapNone ==
    [fmt |-> "panic: called Option::unwrap() on a None value", part |-> 0,
     text |-> "", bytes |-> 0]

RECURSIVE Flatten(_)
Flatten(ss) == IF ss = <<>> THEN <<>> ELSE Head(ss) \o Flatten(Tail(ss))

\* lines 27-29 (the source's U+2200 is spelled "forall" here: ASCII only)
SignatureHead(name) ==
    Flatten(<< write("{}\n", <<name>>),
               write("  :: forall f\n", <<>>),
               write("   . {{", <<>>) >>)

\* Faulty variant: the first iteration writes the separator only.
SignatureFields_first_dropped(ucs) ==
    Flatten([i \in DOMAIN ucs |->
        IF i = 1
        THEN write(" ", <<>>)
        ELSE write("\n     , ", <<>>)
             \o write("{:?} :: f Unit", <<ucs[i][2].title>>)])

\* lines 30-37: one record field per entry of use_cases()
SignatureFields(ucs) ==
    Flatten([i \in DOMAIN ucs |->
        (IF i = 1 THEN write(" ", <<>>) ELSE write("\n     , ", <<>>))
        \o write("{:?} :: f Unit", <<ucs[i][2].title>>)])

\* lines 38-43
DefinitionHead(name) ==
    Flatten(<< write(" }}\n", <<>>),
               write("  -> Portal f\n", <<>>),
               write("{} actions =\n", <<name>>),
               write("  Portal <<< List.fromFoldable $\n", <<>>),
               write("    [", <<>>) >>)

\* Faulty variant: the filter compares the actor identifier of the pair.
ButtonActors_actor_component(self, assocs, use_case_id) ==
    LET kept == SelectSeq(assocs, LAMBDA assoc : assoc[1] = use_case_id)
    IN  [i \in DOMAIN kept |-> actor(self, kept[i][1])]

\* Faulty variant: no filter.
ButtonActors_unfiltered(self, assocs, use_case_id) ==
    [i \in DOMAIN assocs |-> actor(self, assocs[i][1])]

\* Faulty variant: the map looks up the use-case identifier of the pair.
ButtonActors_lookup_use_case_id(self, assocs, use_case_id) ==
    LET kept == SelectSeq(assocs, LAMBDA assoc : assoc[2] = use_case_id)
    IN  [i \in DOMAIN kept |-> actor(self, kept[i][2])]

\* lines 53-56: associations().filter(..).map(..unwrap()), evaluated lazily:
\* the i-th element is looked up when the loop asks for it
ButtonActors(self, assocs, use_case_id) ==
    LET kept == SelectSeq(assocs, LAMBDA assoc : assoc[2] = use_case_id)
    IN  [i \in DOMAIN kept |-> actor(self, kept[i][1])]

\* Faulty variant: the actors of a Button are collected into a set of names
\* first, so an actor whose name was already written is left out.
ActorEntries_distinct_names(acts) ==
    LET first == { i \in DOMAIN acts : \A j \in 1..(i - 1) : acts[j] # acts[i] }
        nth(k) == CHOOSE i \in first : Cardinality({ j \in first : j < i }) = k - 1
        kept  == [k \in 1..Cardinality(first) |-> acts[nth(k)]]
    IN  Flatten([i \in DOMAIN kept |->
            IF kept[i] = None
            THEN << UnwrapNone >>
            ELSE (IF i = 1 THEN write(" ", <<>>)
                  ELSE write("\n                , ", <<>>))
                 \o write("Actor {:?}", <<kept[i][2].name>>)])

\* lines 57-64: the loop over the actors of one Button
ActorEntries(acts) ==
    Flatten([i \in DOMAIN acts |->
        IF acts[i] = None
        THEN << UnwrapNone >>
        ELSE (IF i = 1 THEN write(" ", <<>>) ELSE write("\n                , ", <<>>))
             \o write("Actor {:?}", <<acts[i][2].name>>)])

\* Faulty variant: every Button selects the action by the title of the first
\* use case.
Buttons_action_of_first(self, ucs, assocs) ==
    Flatten([i \in DOMAIN ucs |->
        (IF i = 1 THEN write(" ", <<>>) ELSE write("\n    , ", <<>>))
        \o write("Button {:?}\n", <<ucs[i][2].title>>)
        \o write("             (Set.fromFoldable\n", <<>>)
        \o write("                [", <<>>)
        \o ActorEntries(ButtonActors(self, assocs, ucs[i][1]))
        \o write(" ])\n", <<>>)
        \o write("             actions.{:?}", <<ucs[1][2].title>>)])

\* Faulty variant: a use case without associated actors gets no Button.
Buttons_skip_empty(self, ucs, assocs) ==
    Flatten([i \in DOMAIN ucs |->
        IF ButtonActors(self, assocs, ucs[i][1]) = <<>>
        THEN <<>>
        ELSE (IF i = 1 THEN write(" ", <<>>) ELSE write("\n    , ", <<>>))
             \o write("Button {:?}\n", <<ucs[i][2].title>>)
             \o write("             (Set.fromFoldable\n", <<>>)
             \o write("                [", <<>>)
             \o ActorEntries(ButtonActors(self, assocs, ucs[i][1]))
             \o write(" ])\n", <<>>)
             \o write("             actions.{:?}", <<ucs[i][2].title>>)])

\* lines 44-67: one Button per entry of use_cases()
Buttons(self, ucs, assocs) ==
    Flatten([i \in DOMAIN ucs |->
        (IF i = 1 THEN write(" ", <<>>) ELSE write("\n    , ", <<>>))
        \o write("Button {:?}\n", <<ucs[i][2].title>>)
        \o write("             (Set.fromFoldable\n", <<>>)
        \o write("                [", <<>>)
        \o ActorEntries(ButtonActors(self, assocs, ucs[i][1]))
        \o write(" ])\n", <<>>)
        \o write("             actions.{:?}", <<ucs[i][2].title>>)])

\* the steps of a whole run, lines 27-68
Steps(self, name, use_case_order, association_order) ==
    LET ucs    == use_cases(self, use_case_order)
        assocs == associations(self, association_order)
    IN  SignatureHead(name) \o SignatureFields(ucs) \o DefinitionHead(name)
        \o Buttons(self, ucs, assocs) \o write(" ]\n", <<>>)

\* what the sink holds of a piece it took n bytes of
Written(piece, n) == [piece EXCEPT !.bytes = n]

\* a buffer with room bytes left meets step i: the first step it cannot take
\* whole, and the bytes it takes of that step
RECURSIVE BufferFull(_, _, _)
BufferFull(steps, i, room) ==
    IF i > Len(steps) \/ steps[i].bytes > room
    THEN [at |-> i, taken |-> room, error |-> WriteZero]
    ELSE BufferFull(steps, i + 1, room - steps[i].bytes)

\* write_all of step i, begun with the write() call numbered call: an
\* interrupted call is made again with the same piece, an error of another
\* kind is handed on, a call without fault takes the piece; the walk ends
\* at the step whose write() fails, at an unwrap or past the last step
RECURSIVE WriteAll(_, _, _, _)
WriteAll(faults, steps, i, call) ==
    IF i > Len(steps) \/ steps[i] = UnwrapNone
    THEN [at |-> i, taken |-> 0, error |-> IoError]
    ELSE IF call \notin DOMAIN faults
    THEN WriteAll(faults, steps, i + 1, call + 1)
    ELSE IF faults[call] = Interrupted
    THEN WriteAll(faults, steps, i, call + 1)
    ELSE [at |-> i, taken |-> 0, error |-> faults[call]]

\* the first step of the run that the sink does not take whole (past the
\* last step when there is none), the bytes the sink takes of it and the
\* error write_all returns
SinkFails(sink, steps) ==
    CASE sink.kind = "all"    -> [at |-> Len(steps) + 1, taken |-> 0, error |-> IoError]
      [] sink.kind = "refuse" -> WriteAll(sink.faults, steps, 1, 1)
      [] sink.kind = "buffer" -> BufferFull(steps, 1, sink.size)

\* the iterations a run that stops at step stop has begun: use_cases() is
\* first called after the steps of lines 27-29 (line 30), associations()
\* after the "[" of the first Button (line 54); a traversal never begun has
\* met no order
Begun(steps, stop, name, use_case_order, association_order) ==
    [use_cases    |-> IF stop > Len(SignatureHead(name))
                      THEN use_case_order ELSE <<>>,
     associations |-> IF \E i \in 1..(stop - 1) : steps[i].fmt = "                ["
                      THEN association_order ELSE <<>>]

\* the steps of a run against a sink: what the sink holds, what the call
\* returns and the iteration orders met
Run(sink, steps, name, use_case_order, association_order) ==
    LET unwraps  == { i \in DOMAIN steps : steps[i] = UnwrapNone }
        fails    == SinkFails(sink, steps)
        whole(n) == SubSeq(steps, 1, n)
        begun(n) == Begun(steps, n, name, use_case_order, association_order)
    IN  IF \E i \in unwraps : i <= fails.at
        THEN \* the unwrap panics before the sink fails
             LET stop == CHOOSE i \in unwraps : \A j \in unwraps : i <= j
             IN  [w |-> whole(stop - 1), ret |-> Panic, panic |-> TRUE,
                  iter |-> begun(stop)]
        ELSE IF fails.at > Len(steps)
        THEN [w |-> whole(Len(steps)), ret |-> Ok(Unit), panic |-> FALSE,
              iter |-> begun(Len(steps) + 1)]
        ELSE [w |-> whole(fails.at - 1)
                    \o (IF fails.taken > 0
                        THEN << Written(steps[fails.at], fails.taken) >>
                        ELSE <<>>),
              ret |-> Err(fails.error),
              panic |-> FALSE,
              iter |-> begun(fails.at)]

generate_portal_definition(sink, self, name, use_case_order, association_order) ==
    Run(sink, Steps(self, name, use_case_order, association_order),
        name, use_case_order, association_order)

(***************************************************************************)
(* State.                                                                  *)
(***************************************************************************)
VARIABLES
    diagram,                    \* the UseCaseDiagram
    panicked,                   \* an assert! or unwrap has panicked
    op, args, result,           \* the latest call, its arguments, what it returned
    w,                          \* what the latest call wrote to its sink
    iter,                       \* the iteration orders the latest call met
    insert_actor_calls,         \* the insert_actor calls so far: argument, returned id
    insert_use_case_calls,      \* the insert_use_case calls so far
    insert_association_oks,     \* number of insert_association calls that returned Ok
    insert_association_repeats  \* those of them whose pair was already present

vars == << diagram, panicked, op, args, result, w, iter, insert_actor_calls,
           insert_use_case_calls, insert_association_oks,
           insert_association_repeats >>

NoIter == [use_cases |-> <<>>, associations |-> <<>>]

\* number of calls that changed, or re-inserted into, the diagram
Calls ==
    Len(insert_actor_calls) + Len(insert_use_case_calls) + insert_association_oks

Init ==
    /\ diagram = new
    /\ panicked = ~assert_invariants(new)
    /\ op = "new"
    /\ args = <<>>
    /\ result = Unit
    /\ w = <<>>
    /\ iter = NoIter
    /\ insert_actor_calls = <<>>
    /\ insert_use_case_calls = <<>>
    /\ insert_association_oks = 0
    /\ insert_association_repeats = 0

InsertActor ==
    /\ ~panicked
    /\ Len(insert_actor_calls) < MaxActors
    /\ Calls < MaxCalls
    /\ \E name \in Names :
         LET r == insert_actor(diagram, Actor(name))
         IN  /\ diagram' = r.self
             /\ panicked' = r.panic
             /\ op' = "insert_actor"
             /\ args' = << Actor(name) >>
             /\ result' = r.ret
             /\ insert_actor_calls' =
                    Append(insert_actor_calls, [arg |-> Actor(name), ret |-> r.ret])
    /\ w' = <<>>
    /\ iter' = NoIter
    /\ UNCHANGED << insert_use_case_calls, insert_association_oks,
                    insert_association_repeats >>

InsertUseCase ==
    /\ ~panicked
    /\ Len(insert_use_case_calls) < MaxUseCases
    /\ Calls < MaxCalls
    /\ \E title \in Titles :
         LET r == insert_use_case(diagram, UseCase(title))
         IN  /\ diagram' = r.self
             /\ panicked' = r.panic
             /\ op' = "insert_use_case"
             /\ args' = << UseCase(title) >>
             /\ result' = r.ret
             /\ insert_use_case_calls' =
                    Append(insert_use_case_calls, [arg |-> UseCase(title), ret |-> r.ret])
    /\ w' = <<>>
    /\ iter' = NoIter
    /\ UNCHANGED << insert_actor_calls, insert_association_oks,
                    insert_association_repeats >>

InsertAssociation ==
    /\ ~panicked
    /\ \E actor_id \in ActorIds, use_case_id \in UseCaseIds :
         LET r  == insert_association(diagram, actor_id, use_case_id)
             ok == r.ret[1] = "Ok"
         IN  /\ ok => Calls < MaxCalls
             /\ diagram' = r.self
             /\ panicked' = r.panic
             /\ op' = "insert_association"
             /\ args' = << actor_id, use_case_id >>
             /\ result' = r.ret
             /\ insert_association_oks' = insert_association_oks + (IF ok THEN 1 ELSE 0)
             /\ insert_association_repeats' = insert_association_repeats +
                    (IF ok /\ <<actor_id, use_case_id>> \in diagram.associations
                     THEN 1 ELSE 0)
    /\ w' = <<>>
    /\ iter' = NoIter
    /\ UNCHANGED << insert_actor_calls, insert_use_case_calls >>

GeneratePortalDefinition ==
    /\ ~panicked
    /\ \E name \in PortalNames,
          use_case_order \in Orders(DOMAIN diagram.use_cases),
          association_order \in Orders(diagram.associations) :
         \* r is generate_portal_definition(sink, diagram, name, ..); its
         \* steps, the same for every sink, are computed once
         \E steps \in { Steps(diagram, name, use_case_order, association_order) } :
         \E sink \in Sinks :
         \E r \in { Run(sink, steps, name, use_case_order, association_order) } :
             /\ w' = r.w
             /\ result' = r.ret
             /\ panicked' = r.panic
             /\ op' = "generate_portal_definition"
             /\ args' = << name, sink >>
             /\ iter' = r.iter
    /\ UNCHANGED << diagram, insert_actor_calls, insert_use_case_calls,
                    insert_association_oks, insert_association_repeats >>

Next ==
    \/ InsertActor
    \/ InsertUseCase
    \/ InsertAssociation
    \/ GeneratePortalDefinition

Spec == Init /\ [][Next]_vars


(***************************************************************************)
(* What the callers have seen.                                             *)
(***************************************************************************)
\* identifiers insert_actor / insert_use_case have returned so far
ReturnedActorIds == { insert_actor_calls[i].ret : i \in DOMAIN insert_actor_calls }
ReturnedUseCaseIds == { insert_use_case_calls[i].ret : i \in DOMAIN insert_use_case_calls }

\* an assert! of assert_invariants has failed
AssertionFailed == panicked /\ op # "generate_portal_definition"

(***************************************************************************)
(* C1.  In every state reachable from new() by insert_actor,               *)
(* insert_use_case and insert_association calls, successful or failing,    *)
(* every pair of the association set has its ActorId among the keys of the *)
(* actor mapping and its UseCaseId among the keys of the use-case mapping, *)
(* and no assert_invariants call has failed, those inside next_actor_id /  *)
(* next_use_case_id included.                                              *)
(***************************************************************************)
C1_ReferentialIntegrity ==
    /\ \A assoc \in diagram.associations :
          /\ assoc[1] \in DOMAIN diagram.actors
          /\ assoc[2] \in DOMAIN diagram.use_cases
    /\ ~AssertionFailed

\* next_actor_id has asserted the invariants over a non-empty association
\* set, before the new actor was stored
C1_Witness ==
    /\ op = "insert_actor"
    /\ diagram.associations # {}
    /\ insert_association_oks >= 1

(***************************************************************************)
(* C2.  insert_association(a, u) fails with NonexistentActor(a) iff a was  *)
(* never returned by insert_actor (whatever u is); it fails with           *)
(* NonexistentUseCase(u) iff a was returned by insert_actor and u was      *)
(* never returned by insert_use_case; otherwise it succeeds.               *)
(***************************************************************************)
C2_AssociationErrors ==
    op = "insert_association" =>
        LET a == args[1]
            u == args[2]
        IN  /\ (result = Err(NonexistentActor(a))) <=> (a \notin ReturnedActorIds)
            /\ (result = Err(NonexistentUseCase(u))) <=>
                   (a \in ReturnedActorIds /\ u \notin ReturnedUseCaseIds)
            /\ (result = Ok(Unit)) <=>
                   (a \in ReturnedActorIds /\ u \in ReturnedUseCaseIds)

\* both identifiers are invalid, in a diagram that has actors and use cases:
\* the actor error is the one reported
C2_Witness ==
    /\ op = "insert_association"
    /\ ReturnedActorIds # {}
    /\ ReturnedUseCaseIds # {}
    /\ args[1] \notin ReturnedActorIds
    /\ args[2] \notin ReturnedUseCaseIds
    /\ result = Err(NonexistentActor(args[1]))

(***************************************************************************)
(* C3.  When insert_association returns an error the diagram is the one    *)
(* before the call: actor mapping, use-case mapping, association set and   *)
(* both next-id counters are unchanged.                                    *)
(***************************************************************************)
C3_FailureLeavesDiagram ==
    [][ (op' = "insert_association" /\ result'[1] = "Err") => diagram' = diagram ]_vars

\* a failed insert_association on a diagram that holds associations
C3_Witness ==
    /\ op = "insert_association"
    /\ result[1] = "Err"
    /\ diagram.associations # {}
    /\ args[1] \in ReturnedActorIds

(***************************************************************************)
(* C4.  insert_association is idempotent: calling insert_association(a, u) *)
(* a second time succeeds and leaves the state the first call produced,    *)
(* with the pair in the association set.                                   *)
(***************************************************************************)
C4_Idempotent ==
    [][ ( /\ op = "insert_association"
          /\ result = Ok(Unit)
          /\ op' = "insert_association"
          /\ args' = args )
        => ( /\ result' = Ok(Unit)
             /\ diagram' = diagram
             /\ << args[1], args[2] >> \in diagram'.associations ) ]_vars

\* two successful calls, the second with the pair of the first
C4_Witness ==
    /\ op = "insert_association"
    /\ result = Ok(Unit)
    /\ insert_association_oks = 2
    /\ insert_association_repeats = 1
    /\ diagram.associations = {<< args[1], args[2] >>}

(***************************************************************************)
(* C5.  Identifiers are assigned monotonically from 0 and never reused:    *)
(* the k-th insert_actor call returns ActorId(k-1) and the k-th            *)
(* insert_use_case call returns UseCaseId(k-1), independently of each      *)
(* other and of interleaved insert_association calls.                      *)
(***************************************************************************)
C5_MonotonicIds ==
    /\ \A k \in DOMAIN insert_actor_calls : insert_actor_calls[k].ret = k - 1
    /\ \A k \in DOMAIN insert_use_case_calls : insert_use_case_calls[k].ret = k - 1

\* an insert_use_case after two insert_actor calls and an association
C5_Witness ==
    /\ op = "insert_use_case"
    /\ Len(insert_actor_calls) = 2
    /\ Len(insert_use_case_calls) = 2
    /\ insert_association_oks >= 1

(***************************************************************************)
(* C6.  The number of entries of actors() equals the number of             *)
(* insert_actor calls, that of use_cases() the number of insert_use_case   *)
(* calls, and that of associations() the number of successful              *)
(* insert_association calls minus those that re-inserted a pair already    *)
(* present; a new diagram has all three counts equal to 0.                 *)
(***************************************************************************)
C6_Counts ==
    /\ \A o \in Orders(DOMAIN diagram.actors) :
          Len(actors(diagram, o)) = Len(insert_actor_calls)
    /\ \A o \in Orders(DOMAIN diagram.use_cases) :
          Len(use_cases(diagram, o)) = Len(insert_use_case_calls)
    /\ \A o \in Orders(diagram.associations) :
          Len(associations(diagram, o)) =
              insert_association_oks - insert_association_repeats
    /\ op = "new" =>
          /\ Cardinality(DOMAIN diagram.actors) = 0
          /\ Cardinality(DOMAIN diagram.use_cases) = 0
          /\ Cardinality(diagram.associations) = 0

\* two actors, two use cases, and a pair inserted twice
C6_Witness ==
    /\ Len(insert_actor_calls) = 2
    /\ Len(insert_use_case_calls) = 2
    /\ insert_association_oks = 2
    /\ insert_association_repeats = 1
    /\ Cardinality(diagram.associations) = 1

(***************************************************************************)
(* C7.  insert_actor(x) and insert_use_case(y) succeed in every reachable  *)
(* state; the identifier returned was not a key of the mapping before the  *)
(* call, and right after it actor(id) returns x (use_case(id) returns y),  *)
(* so that actors() / use_cases() yield exactly the (returned id, inserted *)
(* entity) pairs of all inserts made so far.                               *)
(***************************************************************************)
Entries(m) == { << k, m[k] >> : k \in DOMAIN m }
Inserted(calls) == { << calls[i].ret, calls[i].arg >> : i \in DOMAIN calls }

C7_InsertStoresEntity ==
    [][ /\ op' = "insert_actor" =>
              /\ ~panicked'
              /\ result' \notin DOMAIN diagram.actors
              /\ actor(diagram', result') = Some(args'[1])
        /\ op' = "insert_use_case" =>
              /\ ~panicked'
              /\ result' \notin DOMAIN diagram.use_cases
              /\ use_case(diagram', result') = Some(args'[1])
        /\ ~panicked' =>
              /\ Entries(diagram'.actors) = Inserted(insert_actor_calls')
              /\ Entries(diagram'.use_cases) = Inserted(insert_use_case_calls') ]_vars

\* the second insert_actor, of an actor with the name of the first
C7_Witness ==
    /\ op = "insert_actor"
    /\ result = 1
    /\ actor(diagram, 0) = Some(args[1])
    /\ actor(diagram, 1) = Some(args[1])
    /\ Len(insert_use_case_calls) >= 1

(***************************************************************************)
(* C8.  The model is append-only: once actor(id) returns an actor (or      *)
(* use_case(id) a use case) it returns that entity in every later state,   *)
(* and a pair of associations() stays in associations(); no operation      *)
(* removes or overwrites an entity or an association.                      *)
(***************************************************************************)
C8_AppendOnly ==
    [][ /\ \A id \in DOMAIN diagram.actors :
              actor(diagram', id) = actor(diagram, id)
        /\ \A id \in DOMAIN diagram.use_cases :
              use_case(diagram', id) = use_case(diagram, id)
        /\ diagram.associations \subseteq diagram'.associations ]_vars

\* an insert_use_case into a diagram that already held a use case, an actor
\* and an association
C8_Witness ==
    /\ op = "insert_use_case"
    /\ result = 1
    /\ DOMAIN diagram.actors # {}
    /\ diagram.associations # {}

(***************************************************************************)
(* Reading the sink: the Buttons the generator has written, each with the  *)
(* title, the actor entries and the action it was written with.            *)
(***************************************************************************)
\* where the sink holds the first piece of a write! of format fmt
Positions(out, fmt) == { i \in DOMAIN out : out[i].fmt = fmt /\ out[i].part = 1 }
Nth(S, k) == CHOOSE i \in S : Cardinality({ j \in S : j < i }) = k - 1

\* the string written between the first pair of quotes at or after piece i
Quoted(out, i) ==
    LET open == CHOOSE j \in i..Len(out) :
                    /\ out[j].text = "\""
                    /\ \A l \in i..(j - 1) : out[l].text # "\""
    IN  out[open + 1].text

\* the texts of the pieces the sink holds, and the bytes it holds in all
Texts(out) == [i \in DOMAIN out |-> out[i].text]
RECURSIVE SinkBytes(_)
SinkBytes(out) == IF out = <<>> THEN 0 ELSE Head(out).bytes + SinkBytes(Tail(out))
Whole(out) == \A i \in DOMAIN out : out[i].bytes = ByteLen(out[i].text)

EmittedButtons(out) ==
    LET starts == Positions(out, "Button {:?}\n")
        n      == Cardinality(starts)
    IN  [k \in 1..n |->
            LET from    == Nth(starts, k)
                to      == IF k = n THEN Len(out) ELSE Nth(starts, k + 1) - 1
                entries == { i \in Positions(out, "Actor {:?}") : from <= i /\ i <= to }
                action  == { i \in Positions(out, "             actions.{:?}") :
                                from <= i /\ i <= to }
            IN  [ title  |-> Quoted(out, from),
                  actors |-> [j \in 1..Cardinality(entries) |->
                                 Quoted(out, Nth(entries, j))],
                  action |-> [j \in 1..Cardinality(action) |->
                                 Quoted(out, Nth(action, j))] ]]

Range(f) == { f[i] : i \in DOMAIN f }
NoDuplicates(f) == \A i, j \in DOMAIN f : f[i] = f[j] => i = j

\* the actors associated with a use case, and their names
AssociatedActors(use_case_id) ==
    { a \in DOMAIN diagram.actors : << a, use_case_id >> \in diagram.associations }
AssociatedNames(use_case_id) ==
    { diagram.actors[a].name : a \in AssociatedActors(use_case_id) }

\* the latest call is a generation that returned Ok
Generated == op = "generate_portal_definition" /\ result = Ok(Unit)

(***************************************************************************)
(* C9.  For every use case u, the permitted-actor collection written in    *)
(* u's Button is, as a set, exactly { actor(a).name : (a, u) is in         *)
(* associations() }: no association is omitted and no actor without an     *)
(* association to u appears.                                               *)
(***************************************************************************)
C9_PermittedActors ==
    Generated =>
        LET buttons == EmittedButtons(w)
        IN  /\ Len(buttons) = Len(iter.use_cases)
            /\ \A k \in DOMAIN buttons :
                  Range(buttons[k].actors) = AssociatedNames(iter.use_cases[k])

\* two Buttons whose permitted actors differ, neither empty
C9_Witness ==
    /\ Generated
    /\ \E k1, k2 \in DOMAIN EmittedButtons(w) :
          /\ Range(EmittedButtons(w)[k1].actors) # {}
          /\ Range(EmittedButtons(w)[k2].actors) # {}
          /\ Range(EmittedButtons(w)[k1].actors) # Range(EmittedButtons(w)[k2].actors)

(***************************************************************************)
(* C10, as claimed.  For every reachable diagram, also when several actors *)
(* share a name, the permitted-actor collection written for each Button    *)
(* contains no duplicates.                                                 *)
(***************************************************************************)
C10_NoDuplicateEntries ==
    Generated =>
        \A k \in DOMAIN EmittedButtons(w) : NoDuplicates(EmittedButtons(w)[k].actors)

(***************************************************************************)
(* C10, amended.  The generator writes, inside Set.fromFoldable [ .. ],    *)
(* one entry per association of the Button's use case, without removing    *)
(* duplicates itself: the entries are as many as the actors associated     *)
(* with the use case, and they are free of duplicates exactly when those   *)
(* actors have pairwise distinct names.                                    *)
(***************************************************************************)
C10_OneEntryPerAssociation ==
    Generated =>
        LET buttons == EmittedButtons(w)
        IN  /\ Len(buttons) = Len(iter.use_cases)
            /\ \A k \in DOMAIN buttons :
                  LET associated == AssociatedActors(iter.use_cases[k])
                  IN  /\ Len(buttons[k].actors) = Cardinality(associated)
                      /\ NoDuplicates(buttons[k].actors) <=>
                            \A a, b \in associated :
                                diagram.actors[a].name = diagram.actors[b].name => a = b

\* a Button of two actors that share a name, and so of two equal entries
C10_Witness ==
    /\ Generated
    /\ \E k \in DOMAIN EmittedButtons(w) :
          /\ Len(EmittedButtons(w)[k].actors) = 2
          /\ ~NoDuplicates(EmittedButtons(w)[k].actors)

(***************************************************************************)
(* C11.  generate_portal_definition writes an ordered collection of        *)
(* Buttons with exactly one Button per use case of the diagram, in the     *)
(* iteration order of use_cases(); each Button carries that use case's     *)
(* title and the field of the action record selected by that same title.   *)
(***************************************************************************)
C11_OneButtonPerUseCase ==
    Generated =>
        LET buttons == EmittedButtons(w)
        IN  /\ Len(buttons) = Cardinality(DOMAIN diagram.use_cases)
            /\ Len(buttons) = Len(iter.use_cases)
            /\ \A k \in DOMAIN buttons :
                  LET title == diagram.use_cases[iter.use_cases[k]].title
                  IN  /\ buttons[k].title = title
                      /\ buttons[k].action = << title >>

\* two Buttons of different titles, the use case inserted second coming first
C11_Witness ==
    /\ Generated
    /\ iter.use_cases = << 1, 0 >>
    /\ Len(EmittedButtons(w)) = 2
    /\ EmittedButtons(w)[1].title # EmittedButtons(w)[2].title

(***************************************************************************)
(* C12.  The generator never fails because of the diagram's content: on    *)
(* every reachable diagram each association it visits resolves through     *)
(* actor() (the unwrap meets no absent actor), and with a sink whose        *)
(* writes all succeed it returns success.  When it does not return         *)
(* success, the sink failed: a write() of it returned an error other than  *)
(* Interrupted, the call made after the pieces it holds and the            *)
(* interrupted calls before it, or its buffer is full.                     *)
(***************************************************************************)
C12_GeneratorNeverPanics ==
    op = "generate_portal_definition" =>
        /\ ~panicked
        /\ result # Panic
        /\ args[2] = AcceptAll => result = Ok(Unit)
        /\ result = Ok(Unit) => Whole(w)
        /\ result # Ok(Unit) =>
              \/ /\ args[2].kind = "refuse"
                 /\ Whole(w)
                 /\ \E call \in DOMAIN args[2].faults :
                       /\ args[2].faults[call] # Interrupted
                       /\ result = Err(args[2].faults[call])
                       /\ call = Len(w) + 1 + Cardinality(
                              { c \in DOMAIN args[2].faults :
                                  c < call /\ args[2].faults[c] = Interrupted })
              \/ /\ args[2].kind = "buffer"
                 /\ result = Err(WriteZero)
                 /\ SinkBytes(w) = args[2].size

\* a successful generation that looked up the actors of two associations
C12_Witness ==
    /\ Generated
    /\ args[2] = AcceptAll
    /\ Cardinality(diagram.associations) >= 2
    /\ Cardinality(Positions(w, "Actor {:?}")) >= 2

(***************************************************************************)
(* C14.  For an empty diagram the generated portal has a record signature  *)
(* with no fields and a Portal value built from a list with no Buttons;    *)
(* a use case with no associated actor still gets its Button, written      *)
(* with an empty permitted-actor collection.                               *)
(***************************************************************************)
\* the output of test_empty, piece by piece (purescript.rs:27-29, 38-43, 68)
EmptyPortal(name) ==
    << name, "\n",
       "  :: forall f\n",
       "   . {",
       " }\n",
       "  -> Portal f\n",
       name, " actions =\n",
       "  Portal <<< List.fromFoldable $\n",
       "    [",
       " ]\n" >>

C14_EmptyCollections ==
    Generated =>
        LET buttons == EmittedButtons(w)
        IN  /\ (DOMAIN diagram.use_cases = {}) =>
                  /\ Texts(w) = EmptyPortal(args[1]) /\ Whole(w)
                  /\ Positions(w, "{:?} :: f Unit") = {}
                  /\ buttons = <<>>
            /\ \A k \in DOMAIN iter.use_cases :
                  AssociatedActors(iter.use_cases[k]) = {} =>
                      /\ k \in DOMAIN buttons
                      /\ buttons[k].title = diagram.use_cases[iter.use_cases[k]].title
                      /\ buttons[k].actors = <<>>

\* a Button without actors written before a Button with one
C14_Witness ==
    /\ Generated
    /\ Len(EmittedButtons(w)) = 2
    /\ EmittedButtons(w)[1].actors = <<>>
    /\ EmittedButtons(w)[2].actors # <<>>
    /\ AssociatedActors(iter.use_cases[1]) = {}

(***************************************************************************)
(* C15.  Each mutation changes only its own part of the state:             *)
(* insert_actor leaves the use-case mapping, the association set and the   *)
(* use-case counter unchanged; insert_use_case leaves the actor mapping,   *)
(* the association set and the actor counter unchanged; a successful       *)
(* insert_association leaves both mappings and both counters unchanged and *)
(* adds at most the given pair.                                            *)
(***************************************************************************)
C15_Frame ==
    [][ /\ op' = "insert_actor" =>
              /\ diagram'.use_cases = diagram.use_cases
              /\ diagram'.associations = diagram.associations
              /\ diagram'.next_use_case_id = diagram.next_use_case_id
        /\ op' = "insert_use_case" =>
              /\ diagram'.actors = diagram.actors
              /\ diagram'.associations = diagram.associations
              /\ diagram'.next_actor_id = diagram.next_actor_id
        /\ (op' = "insert_association" /\ result' = Ok(Unit)) =>
              /\ diagram'.actors = diagram.actors
              /\ diagram'.use_cases = diagram.use_cases
              /\ diagram'.next_actor_id = diagram.next_actor_id
              /\ diagram'.next_use_case_id = diagram.next_use_case_id
              /\ diagram.associations \subseteq diagram'.associations
              /\ diagram'.associations \subseteq
                     diagram.associations \cup {<< args'[1], args'[2] >>} ]_vars

\* an insert_use_case into a diagram that holds two actors and an association
C15_Witness ==
    /\ op = "insert_use_case"
    /\ Cardinality(DOMAIN diagram.actors) = 2
    /\ diagram.next_actor_id = 2
    /\ diagram.associations # {}

(***************************************************************************)
(* C16.  In every state at which a public operation has returned, the keys *)
(* of the actor mapping are exactly 0 .. next_actor_id - 1 and the keys of *)
(* the use-case mapping exactly 0 .. next_use_case_id - 1; actor(n) is     *)
(* present iff n is less than the number of insert_actor calls so far      *)
(* (likewise use_case), and absent otherwise, without any error.           *)
(***************************************************************************)
C16_KeysAreInitialSegment ==
    /\ DOMAIN diagram.actors = 0 .. (diagram.next_actor_id - 1)
    /\ DOMAIN diagram.use_cases = 0 .. (diagram.next_use_case_id - 1)
    /\ \A n \in ActorIds :
          /\ (actor(diagram, n) # None) <=> (n < Len(insert_actor_calls))
          /\ actor(diagram, n) \in {None} \cup {Some(Actor(x)) : x \in Names}
    /\ \A n \in UseCaseIds :
          /\ (use_case(diagram, n) # None) <=> (n < Len(insert_use_case_calls))
          /\ use_case(diagram, n) \in {None} \cup {Some(UseCase(x)) : x \in Titles}
    /\ ~AssertionFailed

\* two actors and one use case: actor(1) is present, actor(2) and use_case(1)
\* are absent
C16_Witness ==
    /\ Len(insert_actor_calls) = 2
    /\ Len(insert_use_case_calls) = 1
    /\ actor(diagram, 1) # None
    /\ actor(diagram, 2) = None
    /\ use_case(diagram, 1) = None

(***************************************************************************)
(* C17.  Every association of the diagram contributes exactly one actor    *)
(* entry to exactly one Button, the Button of its use case: summed over    *)
(* all Buttons, the number of actor entries written equals the number of   *)
(* entries of associations().                                              *)
(***************************************************************************)
RECURSIVE TotalEntries(_)
TotalEntries(buttons) ==
    IF buttons = <<>> THEN 0
    ELSE Len(Head(buttons).actors) + TotalEntries(Tail(buttons))

C17_OneEntryPerAssociation ==
    Generated =>
        LET buttons == EmittedButtons(w)
        IN  /\ TotalEntries(buttons) = Len(associations(diagram, iter.associations))
            /\ TotalEntries(buttons) = Cardinality(diagram.associations)
            /\ Cardinality(Positions(w, "Actor {:?}")) = Cardinality(diagram.associations)
            /\ \A k \in DOMAIN buttons :
                  Len(buttons[k].actors) =
                      Cardinality({ assoc \in diagram.associations :
                                        assoc[2] = iter.use_cases[k] })

\* two Buttons and two associations, both of one use case and of actors that
\* share a name: two equal entries in one Button, none in the other
C17_Witness ==
    /\ Generated
    /\ Cardinality(diagram.associations) = 2
    /\ Len(EmittedButtons(w)) = 2
    /\ \E k \in DOMAIN EmittedButtons(w) :
          /\ Len(EmittedButtons(w)[k].actors) = 2
          /\ EmittedButtons(w)[k].actors[1] = EmittedButtons(w)[k].actors[2]

(***************************************************************************)
(* C18.  The type signature written by generate_portal_definition lists    *)
(* exactly one record field per use case of the diagram, and the titles of *)
(* those fields, in order, are the titles of the Buttons written, in       *)
(* order: both traversals of use_cases() visit the use cases alike.        *)
(***************************************************************************)
\* the titles of the record fields of the signature, in the order written
EmittedFields(out) ==
    LET fields == Positions(out, "{:?} :: f Unit")
    IN  [j \in 1..Cardinality(fields) |-> Quoted(out, Nth(fields, j))]

C18_SignatureMatchesButtons ==
    Generated =>
        LET fields  == EmittedFields(w)
            buttons == EmittedButtons(w)
        IN  /\ Len(fields) = Cardinality(DOMAIN diagram.use_cases)
            /\ Len(fields) = Len(buttons)
            /\ \A k \in DOMAIN fields :
                  /\ fields[k] = buttons[k].title
                  /\ fields[k] = diagram.use_cases[iter.use_cases[k]].title
            \* the fields are written inside the braces of the signature
            /\ \A i \in Positions(w, "{:?} :: f Unit") :
                  \A j \in Positions(w, " }}\n") : i < j

\* a signature of two fields of different titles
C18_Witness ==
    /\ Generated
    /\ Len(EmittedFields(w)) = 2
    /\ EmittedFields(w)[1] # EmittedFields(w)[2]
    /\ iter.use_cases = << 0, 1 >>

=============================================================================
